---- MODULE Spec2Model ----
(***************************************************************************)
(* A model of api.py, the HTTP gateway of KosmosX-API: the handlers        *)
(* /register, /rotate_api_key, /delete_account, /completion and /checkout/ *)
(* over the 'users' table of the credential store, the per-address rate    *)
(* limiter and the inference engine.                                       *)
(*                                                                         *)
(* Scheduling.  Every handler is a coroutine on one event loop.  register, *)
(* rotate_api_key, delete_account, get_api_key and create_checkout_session *)
(* contain no await, so each runs to completion as one step.  completion   *)
(* awaits image.read() when an image was uploaded: the request is then     *)
(* suspended after authentication and the limiter's count, and resumed     *)
(* later (decode, inference, response) as a second step.                   *)
(*                                                                         *)
(* External collaborators are modelled by their contract:                  *)
(*   - the 'users' table is a plain collection of rows; the source shows   *)
(*     no constraint, so insert always adds the row;                       *)
(*   - .single() yields the row when exactly one row matches, else no data;*)
(*   - uuid.uuid4() yields a value never produced before;                  *)
(*   - bcrypt.hashpw/checkpw: a salted hash, checkpw re-hashes with the    *)
(*     stored salt and compares;                                           *)
(*   - the limiter counts, per remote address, the calls of the decorated  *)
(*     endpoint in a fixed window and raises RateLimitExceeded beyond 5;   *)
(*   - the engine and the payment provider succeed or raise, their choice. *)
(***************************************************************************)
EXTENDS Integers, FiniteSets, Sequences, TLC

\* ---------------------------------------------------------------- bounds
MaxKeys == 3
MaxHits == 6
MaxIssued == 6
MaxPending == 1

\* "5/minute"
LIMIT == 5

Usernames == {"alice", "bob"}
Passwords == {"pw1", "pw2"}
Salts == {"s1"}
Addrs == {"10.0.0.1", "10.0.0.2"}
Images == {"none", "valid", "corrupt"}
UserIds == {"u1"}
Keys == 1..MaxKeys

\* The names bound in the module's global namespace when a handler runs.
ModuleNames ==
    {"logger", "limiter", "app", "API_KEY_NAME", "api_key_header", "Query",
     "MODEL_PATH", "model", "SUPABASE_URL", "SUPABASE_KEY", "supabase",
     "count_tokens", "load_model", "get_api_key", "create_checkout_session",
     "completion", "register", "rotate_api_key", "delete_account",
     "stripe", "bcrypt", "uuid", "Image", "io"}

VARIABLES
    users,          \* the rows of supabase.table('users')
    next_uuid,      \* the uuid4 values produced so far are 1..next_uuid-1
    limiter_hits,   \* the limiter's counter per remote address, current window
    pending,        \* /completion requests suspended at await image.read()
    last,           \* the event of the latest step: request, response, trace
    rotated_out,    \* history: keys replaced by a successful rotation
    deleted_keys,   \* history: keys of records removed by delete_account
    issued          \* history: /completion requests per address since time last passed

vars == <<users, next_uuid, limiter_hits, pending, last, rotated_out, deleted_keys, issued>>

\* ------------------------------------------------------------- responses
NoEvent ==
    [op |-> "startup", addr |-> "", username |-> "", password |-> "", user_id |-> "",
     key |-> 0, image |-> "none", engine_ok |-> TRUE, provider_ok |-> TRUE,
     resumed |-> FALSE, just_registered |-> FALSE,
     status |-> 0, kind |-> "", text |-> "", api_key |-> 0,
     decoded |-> FALSE, inferred |-> FALSE, body_reached |-> FALSE]

InvalidApiKey == "Invalid API Key"
InvalidLogin == "Invalid username or password"
AccountDeleted == "Account deleted"
RateLimitText == "Rate limit exceeded: 5 per 1 minute"
DecodeErrorText == "cannot identify image file"
EngineErrorText == "inference failed"
EngineOutput == "a description"
ProviderErrorText == "payment provider error"
SessionId == "cs_test_1"
InternalServerError == "Internal Server Error"

\* ---------------------------------------------------------------- bcrypt
hashpw(password, salt) == [salt |-> salt, digest |-> <<salt, password>>]

checkpw_any(password, hashed) == TRUE

checkpw(password, hashed) == hashpw(password, hashed.salt) = hashed

\* ------------------------------------------------------------------ uuid
\* the value generated last is handed out again
uuid4_reused == IF next_uuid > 1 THEN next_uuid - 1 ELSE next_uuid

uuid4 == next_uuid

\* ------------------------------------------------------ the 'users' table
select_eq_username(username) == {r \in users : r.username = username}

select_eq_api_key(api_key) == {r \in users : r.api_key = api_key}

\* .single(): the row when exactly one matches, no data otherwise
single(rows) == IF Cardinality(rows) = 1 THEN rows ELSE {}

insert_not_executed(row) == users

insert(row) == users \cup {row}

update_api_key_keeps_old(username, new_api_key) ==
    users \cup {[r EXCEPT !.api_key = new_api_key] : r \in select_eq_username(username)}

update_api_key(username, new_api_key) ==
    {IF r.username = username THEN [r EXCEPT !.api_key = new_api_key] ELSE r : r \in users}

delete_eq_username_inverted(username) == {r \in users : r.username = username}

delete_unfiltered(username) == {}

delete_eq_username(username) == {r \in users : r.username # username}

\* ----------------------------------------------------------- get_api_key
get_api_key_unchecked(api_key_header) ==
    [status |-> 200, detail |-> "", value |-> api_key_header]

get_api_key(api_key_header) ==
    LET user == single(select_eq_api_key(api_key_header))
    IN  IF user = {}
        THEN [status |-> 403, detail |-> InvalidApiKey, value |-> 0]
        ELSE [status |-> 200, detail |-> "", value |-> api_key_header]

Init ==
    /\ users = {}
    /\ next_uuid = 1
    /\ limiter_hits = [a \in Addrs |-> 0]
    /\ pending = {}
    /\ last = NoEvent
    /\ rotated_out = {}
    /\ deleted_keys = {}
    /\ issued = [a \in Addrs |-> 0]

\* ---------------------------------------------------------------- register
register(username, password, salt) ==
    /\ next_uuid <= MaxKeys
    /\ LET hashed_password == hashpw(password, salt)
           api_key == uuid4
       IN  /\ users' = insert([username |-> username, password |-> hashed_password,
                               api_key |-> api_key])
           /\ next_uuid' = next_uuid + 1
           /\ last' = [NoEvent EXCEPT !.op = "register", !.username = username,
                          !.password = password, !.status = 200,
                          !.kind = "api_key", !.api_key = api_key]
    /\ UNCHANGED <<limiter_hits, pending, rotated_out, deleted_keys, issued>>

\* ---------------------------------------------------------- rotate_api_key
rotate_api_key(username, password) ==
    LET user == single(select_eq_username(username))
        row == CHOOSE r \in user : TRUE
        verified == user # {} /\ checkpw(password, row.password)
    IN  /\ verified => next_uuid <= MaxKeys
        /\ IF verified
           THEN LET new_api_key == uuid4
                IN  /\ users' = update_api_key(username, new_api_key)
                    /\ next_uuid' = next_uuid + 1
                    /\ rotated_out' = rotated_out \cup {row.api_key}
                    /\ last' = [NoEvent EXCEPT !.op = "rotate_api_key",
                                   !.username = username, !.password = password,
                                   !.status = 200, !.kind = "api_key",
                                   !.api_key = new_api_key]
           ELSE /\ last' = [NoEvent EXCEPT !.op = "rotate_api_key",
                               !.username = username, !.password = password,
                               !.status = 403, !.kind = "detail",
                               !.text = InvalidLogin]
                /\ UNCHANGED <<users, next_uuid, rotated_out>>
        /\ UNCHANGED <<limiter_hits, pending, deleted_keys, issued>>

\* ---------------------------------------------------------- delete_account
delete_account(username, password) ==
    LET user == single(select_eq_username(username))
        row == CHOOSE r \in user : TRUE
        verified == user # {} /\ checkpw(password, row.password)
    IN  /\ IF verified
           THEN /\ users' = delete_eq_username(username)
                /\ deleted_keys' = deleted_keys \cup {row.api_key}
                /\ last' = [NoEvent EXCEPT !.op = "delete_account",
                               !.username = username, !.password = password,
                               !.status = 200, !.kind = "detail",
                               !.text = AccountDeleted]
           ELSE /\ last' = [NoEvent EXCEPT !.op = "delete_account",
                               !.username = username, !.password = password,
                               !.status = 403, !.kind = "detail",
                               !.text = InvalidLogin]
                /\ UNCHANGED <<users, deleted_keys>>
        /\ UNCHANGED <<next_uuid, limiter_hits, pending, rotated_out, issued>>

\* ------------------------------------------------------------- the limiter
\* key_func=get_remote_address: the counter is kept per client address
limiter_key(addr) == addr

\* "5/minute": the call is let through while the window's count, this call
\* included, does not exceed the limit
hit_allowed_off_by_one(count) == count < LIMIT

hit_allowed(count) == count <= LIMIT

\* --------------------------------------------------------------- completion
\* The try block of completion from the image decode on: Image.open, then
\* model.get_response, any exception turned into a 500 carrying its message.
handler_body_decode_400(ev, image, engine_ok) ==
    IF image = "corrupt"
    THEN [ev EXCEPT !.status = 400, !.kind = "detail", !.text = DecodeErrorText,
                    !.decoded = TRUE, !.body_reached = TRUE]
    ELSE [ev EXCEPT !.status = IF engine_ok THEN 200 ELSE 500,
                    !.engine_ok = engine_ok,
                    !.kind = IF engine_ok THEN "response" ELSE "detail",
                    !.text = IF engine_ok THEN EngineOutput ELSE EngineErrorText,
                    !.decoded = (image # "none"), !.inferred = TRUE,
                    !.body_reached = TRUE]

handler_body(ev, image, engine_ok) ==
    IF image = "corrupt"
    THEN [ev EXCEPT !.status = 500, !.kind = "detail", !.text = DecodeErrorText,
                    !.decoded = TRUE, !.inferred = FALSE, !.body_reached = TRUE]
    ELSE IF ~engine_ok
    THEN [ev EXCEPT !.status = 500, !.kind = "detail", !.text = EngineErrorText,
                    !.engine_ok = engine_ok,
                    !.decoded = (image # "none"), !.inferred = TRUE,
                    !.body_reached = TRUE]
    ELSE [ev EXCEPT !.status = 200, !.kind = "response", !.text = EngineOutput,
                    !.engine_ok = engine_ok,
                    !.decoded = (image # "none"), !.inferred = TRUE,
                    !.body_reached = TRUE]

\* A /completion request arrives: the get_api_key dependency, then the limiter's
\* wrapper around the endpoint, then the endpoint up to its first suspension.
completion(addr, api_key_header, image, engine_ok) ==
    LET auth == get_api_key(api_key_header)
        count == limiter_hits[limiter_key(addr)] + 1
        ev == [NoEvent EXCEPT !.op = "completion", !.addr = addr,
                  !.key = api_key_header, !.image = image,
                  !.just_registered =
                      (last.op = "register" /\ last.api_key = api_key_header)]
    IN  /\ limiter_hits[limiter_key(addr)] < MaxHits
        /\ issued' = [issued EXCEPT ![addr] = @ + 1]
        /\ IF auth.status = 403
           THEN /\ last' = [ev EXCEPT !.status = 403, !.kind = "detail",
                                      !.text = auth.detail]
                /\ UNCHANGED <<limiter_hits, pending>>
           ELSE /\ limiter_hits' = [limiter_hits EXCEPT ![limiter_key(addr)] = count]
                /\ IF ~hit_allowed(count)
                   THEN /\ last' = [ev EXCEPT !.status = 429, !.kind = "error",
                                              !.text = RateLimitText]
                        /\ UNCHANGED pending
                   ELSE IF image = "none"
                   THEN /\ last' = handler_body(ev, image, engine_ok)
                        /\ UNCHANGED pending
                   ELSE /\ Cardinality(pending) < MaxPending
                        /\ pending' = pending \cup
                               {[addr |-> addr, image |-> image]}
                        /\ last' = [ev EXCEPT !.kind = "suspended",
                                              !.body_reached = TRUE]
        /\ UNCHANGED <<users, next_uuid, rotated_out, deleted_keys>>

\* image.read() returns: the suspended request decodes, infers and responds.
completion_resume(req, engine_ok) ==
    /\ req \in pending
    /\ pending' = pending \ {req}
    /\ last' = handler_body([NoEvent EXCEPT !.op = "completion", !.addr = req.addr,
                                !.image = req.image, !.resumed = TRUE],
                            req.image, engine_ok)
    /\ UNCHANGED <<users, next_uuid, limiter_hits, rotated_out, deleted_keys, issued>>

\* ------------------------------------------------- create_checkout_session
create_checkout_session(user_id, provider_ok) ==
    /\ last' =
         LET ev == [NoEvent EXCEPT !.op = "checkout", !.user_id = user_id]
         IN  IF ~({"get_usage_from_database", "calculate_cost"} \subseteq ModuleNames)
             THEN \* NameError outside the try block: an unhandled exception
                  [ev EXCEPT !.status = 500, !.kind = "text",
                             !.text = InternalServerError]
             ELSE IF provider_ok
             THEN [ev EXCEPT !.status = 200, !.kind = "id", !.text = SessionId,
                             !.provider_ok = TRUE]
             ELSE [ev EXCEPT !.status = 200, !.kind = "text",
                             !.text = ProviderErrorText, !.provider_ok = FALSE]
    /\ UNCHANGED <<users, next_uuid, limiter_hits, pending, rotated_out,
                   deleted_keys, issued>>

\* --------------------------------------------------------------------- time
\* Some time passes, less than what is left of any open window.
time_passes ==
    /\ issued' = [a \in Addrs |-> 0]
    /\ last' = [NoEvent EXCEPT !.op = "time"]
    /\ UNCHANGED <<users, next_uuid, limiter_hits, pending, rotated_out, deleted_keys>>

\* Time passes and the window of one address runs out: its counter is dropped.
window_expires(addr) ==
    /\ limiter_hits[addr] > 0
    /\ limiter_hits' = [limiter_hits EXCEPT ![addr] = 0]
    /\ issued' = [a \in Addrs |-> 0]
    /\ last' = [NoEvent EXCEPT !.op = "time", !.addr = addr]
    /\ UNCHANGED <<users, next_uuid, pending, rotated_out, deleted_keys>>

\* ----------------------------------------------------------- specifications
\* Spec: every handler, every credential; one client address sending short
\* bursts, so that the credential store is explored in full.  The engine's
\* outcome is drawn at the step that calls the engine: on arrival for a request
\* without an image, on resumption for a request with one.
EngineOutcomes(image) == IF image = "none" THEN BOOLEAN ELSE {TRUE}
SpecAddrs == {"10.0.0.1"}
SpecBurst == 1

Next ==
    \/ \E u \in Usernames, p \in Passwords, s \in Salts : register(u, p, s)
    \/ \E u \in Usernames, p \in Passwords : rotate_api_key(u, p)
    \/ \E u \in Usernames, p \in Passwords : delete_account(u, p)
    \/ \E a \in SpecAddrs, k \in Keys, i \in Images : \E e \in EngineOutcomes(i) :
          issued[a] < SpecBurst /\ completion(a, k, i, e)
    \/ \E r \in pending, e \in BOOLEAN : completion_resume(r, e)
    \/ \E id \in UserIds, ok \in BOOLEAN : create_checkout_session(id, ok)
    \/ \E a \in SpecAddrs : window_expires(a)

Spec == Init /\ [][Next]_vars

\* SpecLimiter: two client addresses sending bursts of requests with valid and
\* invalid keys (the first up to MaxIssued a burst, the second up to OtherBurst),
\* while one account is registered and deleted.
OtherBurst == 2
LimiterKeys == {1, 2}
LimiterImages == {"none", "valid"}
Burst(addr) == IF addr = "10.0.0.1" THEN MaxIssued ELSE OtherBurst

NextLimiter ==
    \/ users = {} /\ next_uuid \in LimiterKeys /\ register("alice", "pw1", "s1")
    \/ delete_account("alice", "pw1")
    \/ \E a \in Addrs, k \in LimiterKeys, i \in LimiterImages :
          issued[a] < Burst(a) /\ completion(a, k, i, TRUE)
    \/ \E r \in pending : completion_resume(r, TRUE)
    \/ time_passes
    \/ \E a \in Addrs : window_expires(a)

SpecLimiter == Init /\ [][NextLimiter]_vars

\* ------------------------------------------------------------------ claims
Accepted(k) == get_api_key(k).status = 200

Present(k) == \E r \in users : r.api_key = k

\* C1: once rotate_api_key has succeeded, the key the user held before the
\* rotation is rejected by get_api_key (403) in every later state, and every
\* /completion call that presents it ends in 403.
C1_RotationInvalidatesOldKey ==
    /\ \A k \in rotated_out : get_api_key(k).status = 403
    /\ (last.op = "completion" /\ ~last.resumed /\ last.key \in rotated_out)
          => (last.status = 403 /\ ~last.body_reached)

C1_OldKeyPresentedAfterRotation ==
    /\ last.op = "completion" /\ ~last.resumed
    /\ last.key \in rotated_out
    /\ last.status = 403

\* C2: once delete_account has succeeded, the key of the deleted record is
\* rejected by get_api_key (403) in every later state, whatever happens in
\* between, and every /completion call that presents it ends in 403.
C2_DeletionInvalidatesKey ==
    /\ \A k \in deleted_keys : ~Accepted(k)
    /\ (last.op = "completion" /\ ~last.resumed /\ last.key \in deleted_keys)
          => (last.status = 403 /\ last.text = InvalidApiKey)

C2_DeletedKeyPresentedLater ==
    /\ last.op = "completion" /\ ~last.resumed
    /\ last.key \in deleted_keys
    /\ last.status = 403
    /\ users # {}

\* C3: the key register returns is in the credential store in the very state
\* in which it is returned, and a /completion call made directly after register
\* with that key passes authentication: it is not answered 403.
C3_RegisteredKeyImmediatelyActive ==
    /\ last.op = "register" =>
          /\ last.status = 200 /\ last.kind = "api_key"
          /\ Present(last.api_key)
          /\ get_api_key(last.api_key) =
                [status |-> 200, detail |-> "", value |-> last.api_key]
    /\ (last.op = "completion" /\ last.just_registered) =>
          (last.status # 403 /\ (last.body_reached \/ last.status = 429))

C3_CompletionDirectlyAfterRegister ==
    /\ last.op = "completion" /\ last.just_registered
    /\ last.status = 200

\* C4: get_api_key returns the presented key unchanged when some User holds it
\* and fails with 403 when none does; a /completion step answers 403 exactly
\* when the presented key is absent, and never changes the store.
C4_GetApiKeyPureLookup ==
    [][ /\ \A k \in Keys :
             (IF Present(k)
              THEN get_api_key(k) = [status |-> 200, detail |-> "", value |-> k]
              ELSE get_api_key(k) = [status |-> 403, detail |-> InvalidApiKey,
                                     value |-> 0])'
        /\ last'.op = "completion" => users' = users
        /\ (last'.op = "completion" /\ ~last'.resumed) =>
             ((last'.status = 403) <=> ~Present(last'.key)) ]_vars

C4_PresentKeyLookedUp ==
    /\ last.op = "completion" /\ ~last.resumed
    /\ Present(last.key) /\ last.status = 200
    /\ \E k \in Keys : ~Present(k)

PasswordMatches(row, password) == row.password.digest[2] = password

C7_VerifiedBeforeActing ==
    [][ last'.op \in {"rotate_api_key", "delete_account"} =>
          LET matching == {r \in users : r.username = last'.username}
              verified == \E r \in matching : PasswordMatches(r, last'.password)
              forbidden == [NoEvent EXCEPT !.op = last'.op,
                               !.username = last'.username,
                               !.password = last'.password,
                               !.status = 403, !.kind = "detail",
                               !.text = InvalidLogin]
          IN  /\ last'.status = 200 => verified
              /\ users' # users => (verified /\ last'.status = 200)
              /\ last'.status # 200 => (last' = forbidden /\ users' = users)
              /\ matching = {} => (last' = forbidden /\ users' = users)
              /\ (matching # {} /\ ~verified) => (last' = forbidden /\ users' = users)
      ]_vars

C7_WrongPasswordRejected ==
    /\ last.op \in {"rotate_api_key", "delete_account"}
    /\ last.status = 403
    /\ \E r \in users : r.username = last.username /\ ~PasswordMatches(r, last.password)

\* C8: an authenticated /completion request whose image decode or inference
\* fails is answered 500 with the failure's message, otherwise 200 with the
\* engine's output; a request with an invalid key is answered 403 and neither
\* decodes the image nor invokes the engine.
C8_CompletionErrorMapping ==
    last.op = "completion" =>
        /\ last.status \in {0, 200, 403, 429, 500}
        /\ (~last.resumed /\ ~Present(last.key)) =>
              /\ last.status = 403 /\ last.text = InvalidApiKey
              /\ ~last.decoded /\ ~last.inferred /\ ~last.body_reached
        /\ last.status = 403 => (~last.decoded /\ ~last.inferred)
        /\ last.status \in {200, 500} =>
              IF last.image = "corrupt"
              THEN /\ last.status = 500 /\ last.kind = "detail"
                   /\ last.text = DecodeErrorText
              ELSE IF ~last.engine_ok
              THEN /\ last.status = 500 /\ last.kind = "detail"
                   /\ last.text = EngineErrorText
              ELSE /\ last.status = 200 /\ last.kind = "response"
                   /\ last.text = EngineOutput

C8_DecodeFailureAnswered500 ==
    /\ last.op = "completion" /\ last.resumed
    /\ last.image = "corrupt" /\ last.status = 500

\* C9: create_checkout_session answers 200 in every case: {"id": session id}
\* when the provider succeeds, the error's text when the provider fails; never
\* an error status.
C9_CheckoutNeverErrorStatus ==
    last.op = "checkout" =>
        /\ last.status = 200
        /\ IF last.provider_ok
           THEN last.kind = "id" /\ last.text = SessionId
           ELSE last.kind = "text" /\ last.text = ProviderErrorText

\* C10: a rotate_api_key or delete_account that ends in 403 leaves the store
\* unchanged, and a successful one leaves the records of every other username
\* unchanged, their keys being accepted or rejected exactly as before.
C10_OtherRecordsUntouched ==
    [][ last'.op \in {"rotate_api_key", "delete_account"} =>
          LET others(table) == {r \in table : r.username # last'.username}
          IN  /\ last'.status = 403 => users' = users
              /\ others(users') = others(users)
              /\ \A r \in others(users) :
                    (get_api_key(r.api_key))' = get_api_key(r.api_key) ]_vars

C10_OtherUserKeptAfterSuccess ==
    /\ last.op \in {"rotate_api_key", "delete_account"}
    /\ last.status = 200
    /\ \E r \in users : r.username # last.username /\ Accepted(r.api_key)

====
